---- MODULE Spec2Model ----
\* A model of fd_py (src/fd_py/main.py): the PathFilter classes, the recursive
\* tree builder ls() and the command-line entry point main(), run against a
\* small set of directory layouts.
EXTENDS Integers, Sequences, FiniteSets, TLC

\* ------------------------------------------------------------------ bounds
\* largest --max-depth / max_depth argument tried (smallest is -1)
MaxDepth == 2
\* longest filter list passed to ls() by a direct caller
MaxFilters == 2

\* ------------------------------------------------------- values and results
\* The outcome of a Python expression: a value, or a raised exception.
Ret(v) == [exc |-> "", val |-> v]
Raise(e) == [exc |-> e, val |-> FALSE]

\* A max_depth value: an int, or PyNone (--max-depth given without a value)
PyInt(n) == [none |-> FALSE, int |-> n]
PyNone == [none |-> TRUE, int |-> 0]

\* ------------------------------------------------------------ file systems
\* Names and strings are sequences of one-character strings.
\* A layout is an inode table: type[i], r[i] (read permission of a directory:
\* listing), x[i] (search permission of a directory: stat of its entries),
\* ents[i] (the directory's entries in os.listdir order).  An entry either
\* names an inode, or is a symbolic link (ino = 0) whose target is a path from
\* the root directory on.  Inode 1 is the root directory.
Ent(name, ino) == [name |-> name, ino |-> ino, target |-> <<>>]
Link(name, target) == [name |-> name, ino |-> 0, target |-> target]

NameRoot == <<"r">>
NameA == <<"a", ".", "t">>
NameH == <<".", "h">>
NameS == <<"s">>
NameY == <<"y">>
NameZ == <<"z">>
NameD == <<"d">>
NameL == <<"l">>
NameP == <<"b", ".", "p">>
NameK == <<"k">>
NameN == <<"n">>
NameG == <<".", "g">>
NameC == <<"c", ".", "t">>
NameE == <<"e">>
NameEE == <<"e", "e">>
NameLE == <<"l", "e">>
NameQ == <<"q">>
NameMissing == <<"m">>

\* the layout of the usual scenarios: a file, a hidden file, an empty
\* directory, a symlink to the file and a dangling symlink
LayoutPlain ==
  [type |-> <<"dir", "file", "file", "dir">>,
   r    |-> <<TRUE, TRUE, TRUE, TRUE>>,
   x    |-> <<TRUE, TRUE, TRUE, TRUE>>,
   ents |-> << <<Ent(NameA, 2), Ent(NameH, 3), Ent(NameS, 4),
                 Link(NameY, <<NameRoot, NameA>>), Link(NameZ, <<NameRoot, NameMissing>>)>>,
               <<>>, <<>>, <<>> >>]

\* an unreadable directory d, a directory s holding a symlink l back to the
\* root (a cycle) and a fifo, and a socket
LayoutDenied ==
  [type |-> <<"dir", "dir", "file", "dir", "fifo", "sock">>,
   r    |-> <<TRUE, FALSE, TRUE, TRUE, TRUE, TRUE>>,
   x    |-> <<TRUE, TRUE, TRUE, TRUE, TRUE, TRUE>>,
   ents |-> << <<Ent(NameD, 2), Ent(NameA, 3), Ent(NameS, 4),
                 Ent(NameK, 6)>>,
               <<>>, <<>>,
               <<Link(NameL, <<NameRoot>>), Ent(NameP, 5)>>,
               <<>>, <<>> >>]

\* a directory n that can be listed but not searched (mode r--): stat of its
\* entries is refused; a symlink z whose target lies below the regular file a.t
LayoutNoSearch ==
  [type |-> <<"dir", "file", "dir", "file", "file", "file">>,
   r    |-> <<TRUE, TRUE, TRUE, TRUE, TRUE, TRUE>>,
   x    |-> <<TRUE, TRUE, FALSE, TRUE, TRUE, TRUE>>,
   ents |-> << <<Ent(NameH, 2), Ent(NameN, 3), Ent(NameA, 6),
                 Link(NameZ, <<NameRoot, NameA, NameQ>>)>>,
               <<>>,
               <<Ent(NameG, 4), Ent(NameC, 5)>>,
               <<>>, <<>>, <<>> >>]

\* a root directory that can be listed but not searched
LayoutRootNoSearch ==
  [type |-> <<"dir", "file", "file">>,
   r    |-> <<TRUE, TRUE, TRUE>>,
   x    |-> <<FALSE, TRUE, TRUE>>,
   ents |-> << <<Ent(NameH, 2), Ent(NameA, 3)>>, <<>>, <<>> >>]

\* an unreadable directory d, a directory e that can be listed but not
\* searched, a symlink q to itself, a symlink le to the directory e/ee, whose
\* target cannot be reached, and a file
LayoutLinkDenied ==
  [type |-> <<"dir", "dir", "dir", "dir", "file">>,
   r    |-> <<TRUE, FALSE, TRUE, TRUE, TRUE>>,
   x    |-> <<TRUE, TRUE, FALSE, TRUE, TRUE>>,
   ents |-> << <<Ent(NameD, 2), Ent(NameE, 3), Link(NameQ, <<NameRoot, NameQ>>),
                 Link(NameLE, <<NameRoot, NameE, NameEE>>), Ent(NameA, 5)>>,
               <<>>,
               <<Ent(NameEE, 4)>>,
               <<>>, <<>> >>]

\* an empty root directory
LayoutEmpty ==
  [type |-> <<"dir">>, r |-> <<TRUE>>, x |-> <<TRUE>>, ents |-> << <<>> >>]

\* a root directory holding only a symlink l to the root itself: r/l/l/... is
\* the root again at any length
LayoutCycle ==
  [type |-> <<"dir">>, r |-> <<TRUE>>, x |-> <<TRUE>>,
   ents |-> << <<Link(NameL, <<NameRoot>>)>> >>]

Layouts ==
  {LayoutPlain, LayoutDenied, LayoutNoSearch, LayoutRootNoSearch, LayoutLinkDenied,
   LayoutEmpty, LayoutCycle}

RootPath == <<NameRoot>>

\* the working directory, prefix of every absolute path
Cwd == <<"/", "w">>

\* index of the entry called name in a directory's entries, 0 if none
EntryIndex(ents, name) ==
  IF \E k \in 1..Len(ents) : ents[k].name = name
  THEN CHOOSE k \in 1..Len(ents) : ents[k].name = name
  ELSE 0

\* the number of symbolic links the system follows while resolving one path;
\* one more is ELOOP, whatever the directories hold
MaxSymlinks == 40

\* Path resolution, one component at a time.  A walk is at component i of
\* path, in the directory inode cur, with fuel links left to follow; when done
\* it holds the outcome: the inode found, or a final link left unresolved, or
\* the error.
WalkStart(path) ==
  [done |-> FALSE, path |-> path, i |-> 2, cur |-> 1, fuel |-> MaxSymlinks,
   err |-> "", ino |-> 0, link |-> FALSE]

WalkDone(s, err, ino, link) ==
  [s EXCEPT !.done = TRUE, !.err = err, !.ino = ino, !.link = link]

\* One step.  A component below a non-directory is ENOTDIR, one below a
\* directory without search permission EACCES, a missing one ENOENT.  A
\* symbolic link is replaced by its target path followed by the remaining
\* components, resolved with the same checks; a final link is resolved only
\* when follow holds; one link more than MaxSymlinks is ELOOP.
WalkStep(L, s, follow) ==
  IF s.done THEN s
  ELSE IF s.i > Len(s.path) THEN WalkDone(s, "", s.cur, FALSE)
  ELSE IF L.type[s.cur] # "dir" THEN WalkDone(s, "ENOTDIR", 0, FALSE)
  ELSE IF ~L.x[s.cur] THEN WalkDone(s, "EACCES", 0, FALSE)
  ELSE IF EntryIndex(L.ents[s.cur], s.path[s.i]) = 0 THEN WalkDone(s, "ENOENT", 0, FALSE)
  ELSE LET e == L.ents[s.cur][EntryIndex(L.ents[s.cur], s.path[s.i])]
       IN IF e.target = <<>> THEN [s EXCEPT !.i = @ + 1, !.cur = e.ino]
          ELSE IF s.i = Len(s.path) /\ ~follow THEN WalkDone(s, "", 0, TRUE)
          ELSE IF s.fuel = 0 THEN WalkDone(s, "ELOOP", 0, FALSE)
          ELSE [s EXCEPT !.path = e.target \o SubSeq(s.path, s.i + 1, Len(s.path)),
                         !.i = 2, !.cur = 1, !.fuel = @ - 1]

\* steps until the walk is done: it always is, since a step moves to the next
\* component or spends a link (the walk after a step is bound as a value)
RECURSIVE Walk(_, _, _)
Walk(L, s, follow) ==
  IF s.done THEN s
  ELSE CHOOSE w \in {Walk(L, t, follow) : t \in {WalkStep(L, s, follow)}} : TRUE

Lookup(L, path, follow) ==
  CHOOSE w \in {[err |-> t.err, ino |-> t.ino, link |-> t.link] :
                t \in {Walk(L, s, follow) : s \in {WalkStart(path)}}} : TRUE

\* the stat result of a resolved path w: the error, or the file type (a link
\* when the final link was left unresolved)
StatResult(L, w) ==
  IF w.err # "" THEN [err |-> w.err, type |-> ""]
  ELSE IF w.link THEN [err |-> "", type |-> "lnk"]
  ELSE [err |-> "", type |-> L.type[w.ino]]

\* os.stat: follows a final symlink
Stat(L, path) == StatResult(L, Lookup(L, path, TRUE))

\* os.lstat: does not follow a final symlink
Lstat(L, path) == StatResult(L, Lookup(L, path, FALSE))

\* pathlib's _ignore_error: the errors the type tests turn into False
IgnoredErrors == {"ENOENT", "ENOTDIR", "ELOOP"}

\* the exception class of an OSError
OSErrorClass(err) ==
  CASE err = "EACCES" -> "PermissionError"
    [] err = "ENOENT" -> "FileNotFoundError"
    [] err = "ENOTDIR" -> "NotADirectoryError"
    [] OTHER -> "OSError"

\* Path.is_socket / is_file / is_dir / is_fifo: the stat type test; an
\* ignored error gives False, any other OSError (EACCES) is raised
TypeTest(s, t) ==
  IF s.err = "" THEN Ret(s.type = t)
  ELSE IF s.err \in IgnoredErrors THEN Ret(FALSE)
  ELSE Raise(OSErrorClass(s.err))

StatIs(L, path, t) == TypeTest(Stat(L, path), t)

is_socket(L, path) == StatIs(L, path, "sock")
is_file(L, path) == StatIs(L, path, "file")
is_dir(L, path) == StatIs(L, path, "dir")
is_fifo(L, path) == StatIs(L, path, "fifo")

\* Path.is_symlink: the same test on the lstat result
is_symlink(L, path) == TypeTest(Lstat(L, path), "lnk")

\* Path.iterdir: the names of the directory, or the OSError of os.listdir
\* when the directory cannot be reached or read
ListDir(L, w) ==
  IF w.err # "" THEN [exc |-> OSErrorClass(w.err), names |-> <<>>]
  ELSE IF L.type[w.ino] # "dir" THEN [exc |-> "NotADirectoryError", names |-> <<>>]
  ELSE IF ~L.r[w.ino] THEN [exc |-> "PermissionError", names |-> <<>>]
  ELSE [exc |-> "", names |-> [k \in 1..Len(L.ents[w.ino]) |-> L.ents[w.ino][k].name]]

iterdir(L, path) == ListDir(L, Lookup(L, path, TRUE))

\* ------------------------------------------------------------ path strings
\* path.name
Name(path) == path[Len(path)]

RECURSIVE JoinParts(_, _)
JoinParts(path, i) ==
  IF i > Len(path) THEN <<>> ELSE <<"/">> \o path[i] \o JoinParts(path, i + 1)

\* str(path.absolute())
AbsoluteStr(path) == Cwd \o JoinParts(path, 1)

\* str.rfind("."): the last index of a dot, 0 if none (1-based)
RFindDot(s) ==
  IF \E i \in 1..Len(s) : s[i] = "."
  THEN CHOOSE i \in 1..Len(s) : s[i] = "." /\ \A j \in (i + 1)..Len(s) : s[j] # "."
  ELSE 0

\* path.suffix: from the last dot on, unless that dot is the first or the
\* last character of the name
Suffix(path) ==
  LET n == Name(path)
      i == RFindDot(n)
  IN IF 1 < i /\ i < Len(n) THEN SubSeq(n, i, Len(n)) ELSE <<>>

\* str.lstrip(".")
RECURSIVE LStripDots(_)
LStripDots(s) ==
  IF s # <<>> /\ s[1] = "." THEN LStripDots(Tail(s)) ELSE s

\* ------------------------------------------------------ regular expressions
\* Patterns over literal characters, "." (any character), a postfix "*" and
\* an opening parenthesis, which no pattern here closes.
Compiles(pat) ==
  /\ \A i \in 1..Len(pat) : pat[i] # "("
  /\ (pat # <<>> => pat[1] # "*")
  /\ \A i \in 1..(Len(pat) - 1) : ~(pat[i] = "*" /\ pat[i + 1] = "*")

CharMatches(pc, c) == pc = "." \/ pc = c

\* does pat[i..] match a prefix of s[j..]
RECURSIVE MatchHere(_, _, _, _)
MatchHere(pat, i, s, j) ==
  IF i > Len(pat) THEN TRUE
  ELSE IF i < Len(pat) /\ pat[i + 1] = "*"
  THEN \E n \in 0..(Len(s) - j + 1) :
         /\ \A m \in j..(j + n - 1) : CharMatches(pat[i], s[m])
         /\ MatchHere(pat, i + 2, s, j + n)
  ELSE /\ j <= Len(s)
       /\ CharMatches(pat[i], s[j])
       /\ MatchHere(pat, i + 1, s, j + 1)

\* bool(re.findall(pat, s)): some match starts somewhere in s
Search(pat, s) == \E j \in 1..(Len(s) + 1) : MatchHere(pat, 1, s, j)

\* ----------------------------------------------------------------- filters
\* A PathFilter object: tag names the class, arg is its field (the extension,
\* the pattern or the type code), inner holds the wrapped filter of an
\* InverseFilter.
HiddenFilter == [tag |-> "Hidden", arg |-> <<>>, inner |-> <<>>]
FileExtensionFilter(ext) == [tag |-> "Ext", arg |-> ext, inner |-> <<>>]
RegexFilter(pattern) == [tag |-> "Regex", arg |-> pattern, inner |-> <<>>]
FiletypeFilter(t) == [tag |-> "Type", arg |-> <<t>>, inner |-> <<>>]
InverseFilter(pf) == [tag |-> "Not", arg |-> <<>>, inner |-> <<pf>>]

\* the keys of FiletypeFilter.filetype_map
FiletypeKeys == {"s", "f", "d", "p", "l"}

\* FiletypeFilter.filetype_map[t](path)
filetype_map(t, L, path) ==
  CASE t = "s" -> is_socket(L, path)
    [] t = "f" -> is_file(L, path)
    [] t = "d" -> is_dir(L, path)
    [] t = "p" -> is_fifo(L, path)
    [] t = "l" -> is_symlink(L, path)

\* HiddenFilter.filter
HiddenFilter_filter(L, path) ==
  Ret(Name(path) # <<>> /\ Name(path)[1] = ".")

\* FileExtensionFilter.filter
FileExtensionFilter_filter(ext, L, path) ==
  LET d == is_dir(L, path) IN
  IF d.exc # "" THEN d
  ELSE IF d.val THEN Ret(TRUE)
  ELSE Ret(LStripDots(Suffix(path)) = ext)

\* RegexFilter.filter
RegexFilter_filter(pattern, L, path) ==
  IF ~Compiles(pattern) THEN Raise("re.error")
  ELSE Ret(Search(pattern, AbsoluteStr(path)))

\* FiletypeFilter.filter
FiletypeFilter_filter(t, L, path) ==
  IF t \notin FiletypeKeys THEN Raise("KeyError")
  ELSE filetype_map(t, L, path)

\* pf.filter(path), InverseFilter.filter included
RECURSIVE Filter(_, _, _)
Filter(pf, L, path) ==
  CASE pf.tag = "Hidden" -> HiddenFilter_filter(L, path)
    [] pf.tag = "Ext" -> FileExtensionFilter_filter(pf.arg, L, path)
    [] pf.tag = "Regex" -> RegexFilter_filter(pf.arg, L, path)
    [] pf.tag = "Type" -> FiletypeFilter_filter(pf.arg[1], L, path)
    [] pf.tag = "Not" ->
         LET r == Filter(pf.inner[1], L, path) IN
         IF r.exc # "" THEN r ELSE Ret(~r.val)

\* a variant of the admission test that lets every directory through
RECURSIVE AllFilters_dirs_pass(_, _, _, _)
AllFilters_dirs_pass(fs, i, L, path) ==
  IF i > Len(fs) THEN Ret(TRUE)
  ELSE LET r == Filter(fs[i], L, path) IN
       IF r.exc # "" THEN r
       ELSE IF ~r.val /\ ~is_dir(L, path).val THEN Ret(FALSE)
       ELSE AllFilters_dirs_pass(fs, i + 1, L, path)

\* all(pf.filter(file) for pf in filters), from filter i on: stops at the
\* first False, and an exception raised by a filter ends it
RECURSIVE AllFilters(_, _, _, _)
AllFilters(fs, i, L, path) ==
  IF i > Len(fs) THEN Ret(TRUE)
  ELSE LET r == Filter(fs[i], L, path) IN
       IF r.exc # "" THEN r
       ELSE IF ~r.val THEN Ret(FALSE)
       ELSE AllFilters(fs, i + 1, L, path)

\* ------------------------------------------------------------ command line
\* the choices of -t/--type
TypeChoices == {"s", "f", "d", "p"}

\* parsed command lines: hidden is TRUE unless -H is given; pattern is empty
\* when -p is given without a value; max_depth is PyNone when --max-depth is
\* given without a value
HiddenArgs == BOOLEAN
TypeArgs == {<<>>, <<"f">>, <<"d">>, <<"s">>, <<"p">>, <<"f", "d">>, <<"l">>}
PatternArgs == {<<".", "*">>, <<"(">>, <<"s">>, <<>>}
ExcludeArgs == {<<>>, << <<"t">> >>}
ExtArgs == {<<>>, << <<"t">> >>}
DepthInts == {PyInt(n) : n \in (0 - 1)..MaxDepth}
DepthArgs == DepthInts \cup {PyNone}

ArgSet ==
  [hidden : HiddenArgs, type : TypeArgs, pattern : PatternArgs,
   exclude : ExcludeArgs, ext : ExtArgs, max_depth : DepthArgs]

\* argparse accepts the command line
ArgsAccepted(a) == \A k \in 1..Len(a.type) : a.type[k] \in TypeChoices

\* the filter list main() builds from the parsed arguments
BuildFilters(a) ==
  (IF a.hidden THEN <<InverseFilter(HiddenFilter)>> ELSE <<>>)
  \o [k \in 1..Len(a.type) |-> FiletypeFilter(a.type[k])]
  \o (IF a.pattern # <<>> THEN <<RegexFilter(a.pattern)>> ELSE <<>>)
  \o [k \in 1..Len(a.exclude) |-> InverseFilter(RegexFilter(a.exclude[k]))]
  \o [k \in 1..Len(a.ext) |-> FileExtensionFilter(a.ext[k])]

\* filter lists a direct caller of ls() passes
FilterPool ==
  {HiddenFilter, InverseFilter(HiddenFilter), InverseFilter(InverseFilter(HiddenFilter)),
   FiletypeFilter("f"), FiletypeFilter("l"), FiletypeFilter("x"),
   RegexFilter(<<"(">>), FileExtensionFilter(<<"t">>)}

FilterLists == UNION {[1..n -> FilterPool] : n \in 0..MaxFilters}

\* --------------------------------------------------------------- tree nodes
\* rich Tree(label, guide_style) with its children, and a rich Text leaf
Tree(label, children) ==
  [kind |-> "Tree", label |-> label, style |-> "blue", children |-> children]
Text(label, style) ==
  [kind |-> "Text", label |-> label, style |-> style, children |-> <<>>]

\* -------------------------------------------------------------------- state
VARIABLES
  layout,     \* the directory layout on disk
  caller,     \* "main": run from the command line; "ls": ls() called directly
  args,       \* the parsed command line (caller = "main")
  filters,    \* the filter list
  max_depth,  \* the max_depth of the outermost ls() call
  pc,         \* "main", "call", "ls", "print", "done", "returned", "exit2", "crashed"
  stack,      \* the active ls() calls, outermost first
  result,     \* <<tree>> once the outermost ls() has returned
  stdout,     \* <<tree>> once main() has printed it
  stderr,     \* the lines written to standard error
  exc         \* the exception that ended the run, "" if none

vars == <<layout, caller, args, filters, max_depth, pc, stack, result, stdout, stderr, exc>>

\* a call ls(path, max_depth=md, filters=filters) at line 75: the tree is
\* made, the directory not yet listed
NewFrame(path, md) ==
  [path |-> path, max_depth |-> md, state |-> "new", names |-> <<>>,
   idx |-> 0, children |-> <<>>]

NoArgs ==
  [hidden |-> FALSE, type |-> <<>>, pattern |-> <<>>, exclude |-> <<>>,
   ext |-> <<>>, max_depth |-> PyInt(0)]

InitMain ==
  /\ caller = "main"
  /\ args \in ArgSet
  /\ filters = <<>>
  /\ max_depth = args.max_depth
  /\ pc = "main"

InitLs ==
  /\ caller = "ls"
  /\ args = NoArgs
  /\ filters \in FilterLists
  /\ max_depth \in DepthInts
  /\ pc = "call"

Init ==
  /\ layout \in Layouts
  /\ (InitMain \/ InitLs)
  /\ stack = <<>>
  /\ result = <<>>
  /\ stdout = <<>>
  /\ stderr = <<>>
  /\ exc = ""

\* ----------------------------------------------------------------- ls steps
Top == stack[Len(stack)]
\* the entry the loop of the innermost call is at
File == Append(Top.path, Top.names[Top.idx])
InLoop == pc = "ls" /\ Top.state = "iter" /\ Top.idx <= Len(Top.names)

SetTop(f) == [stack EXCEPT ![Len(stack)] = f]

\* the diagnostic line of line 84
Denied(path) == [line |-> "access denied for file", path |-> path]

\* line 79: file.is_dir() and max_depth > 0, given the value of is_dir();
\* comparing PyNone with 0 raises TypeError
ShouldRecurse_ge(isdir, md) ==
  IF ~isdir THEN Ret(FALSE)
  ELSE IF md.none THEN Raise("TypeError")
  ELSE Ret(md.int >= 0)
ShouldRecurse_always(isdir, md) == Ret(isdir)
ShouldRecurse(isdir, md) ==
  IF ~isdir THEN Ret(FALSE)
  ELSE IF md.none THEN Raise("TypeError")
  ELSE Ret(md.int > 0)

\* line 80: the depth budget of the nested call
ChildDepth_same(md) == md
ChildDepth(md) == PyInt(md.int - 1)

\* line 82: the entry becomes a leaf of the tree
ElseBranch_files_only(children, name, isdir) ==
  IF isdir THEN children ELSE Append(children, Text(name, ""))
ElseBranch(children, name, isdir) ==
  Append(children, Text(name, IF isdir THEN "blue" ELSE ""))

\* line 83: the exceptions the handler of ls() catches
Catches(e) == e = "PermissionError"

\* what evaluating lines 78-79 on the current entry raises, "" if nothing
Raised ==
  LET adm == AllFilters(filters, 1, layout, File)
      dir == is_dir(layout, File)
  IN IF adm.exc # "" THEN adm.exc
     ELSE IF ~adm.val THEN ""
     ELSE IF dir.exc # "" THEN dir.exc
     ELSE ShouldRecurse(dir.val, Top.max_depth).exc

\* the current entry passed every filter and line 79 raised nothing
Admitted ==
  /\ AllFilters(filters, 1, layout, File) = Ret(TRUE)
  /\ Raised = ""

\* lines 131-145: the command line is accepted and the filters are built
Main ==
  /\ pc = "main"
  /\ ArgsAccepted(args)
  /\ filters' = BuildFilters(args)
  /\ pc' = "call"
  /\ UNCHANGED <<layout, caller, args, max_depth, stack, result, stdout, stderr, exc>>

\* line 131: argparse rejects a type outside the choices and exits
MainUsage ==
  /\ pc = "main"
  /\ ~ArgsAccepted(args)
  /\ stderr' = Append(stderr, [line |-> "usage", path |-> <<>>])
  /\ pc' = "exit2"
  /\ UNCHANGED <<layout, caller, args, filters, max_depth, stack, result, stdout, exc>>

\* line 146, or a direct call: ls(path, max_depth, filters) is entered
CallLs ==
  /\ pc = "call"
  /\ stack' = <<NewFrame(RootPath, max_depth)>>
  /\ pc' = "ls"
  /\ UNCHANGED <<layout, caller, args, filters, max_depth, result, stdout, stderr, exc>>

\* line 77: the directory is listed
LsIterdir ==
  /\ pc = "ls" /\ Top.state = "new"
  /\ LET it == iterdir(layout, Top.path) IN
     /\ it.exc = ""
     /\ stack' = SetTop([Top EXCEPT !.state = "iter", !.names = it.names, !.idx = 1])
  /\ UNCHANGED <<layout, caller, args, filters, max_depth, pc, result, stdout, stderr, exc>>

\* lines 77, 83-84: listing the directory is refused
LsIterdirDenied ==
  /\ pc = "ls" /\ Top.state = "new"
  /\ LET it == iterdir(layout, Top.path) IN
     /\ it.exc # "" /\ Catches(it.exc)
     /\ stack' = SetTop([Top EXCEPT !.state = "ret"])
     /\ stderr' = Append(stderr, Denied(Top.path))
  /\ UNCHANGED <<layout, caller, args, filters, max_depth, pc, result, stdout, exc>>

\* line 78: a filter rejects the entry
LsSkip ==
  /\ InLoop
  /\ AllFilters(filters, 1, layout, File) = Ret(FALSE)
  /\ stack' = SetTop([Top EXCEPT !.idx = @ + 1])
  /\ UNCHANGED <<layout, caller, args, filters, max_depth, pc, result, stdout, stderr, exc>>

\* lines 79-80: the nested call is entered
LsRecurse ==
  /\ InLoop
  /\ Admitted
  /\ ShouldRecurse(is_dir(layout, File).val, Top.max_depth).val
  /\ stack' = Append(stack, NewFrame(File, ChildDepth(Top.max_depth)))
  /\ UNCHANGED <<layout, caller, args, filters, max_depth, pc, result, stdout, stderr, exc>>

\* lines 81-82: the entry is added as a leaf
LsAddLeaf ==
  /\ InLoop
  /\ Admitted
  /\ ~ShouldRecurse(is_dir(layout, File).val, Top.max_depth).val
  /\ stack' = SetTop([Top EXCEPT
                        !.children = ElseBranch(@, Name(File), is_dir(layout, File).val),
                        !.idx = @ + 1])
  /\ UNCHANGED <<layout, caller, args, filters, max_depth, pc, result, stdout, stderr, exc>>

\* lines 78-79, 83-84: a filter or is_dir() raises PermissionError; the loop
\* is left and the diagnostic names the directory being listed
LsExcept ==
  /\ InLoop
  /\ Raised # "" /\ Catches(Raised)
  /\ stack' = SetTop([Top EXCEPT !.state = "ret"])
  /\ stderr' = Append(stderr, Denied(Top.path))
  /\ UNCHANGED <<layout, caller, args, filters, max_depth, pc, result, stdout, exc>>

\* an exception the handler does not catch leaves every active call
LsUncaught ==
  /\ pc = "ls"
  /\ \E e \in {"PermissionError", "re.error", "KeyError", "TypeError",
               "FileNotFoundError", "NotADirectoryError", "OSError"} :
       /\ \/ Top.state = "new" /\ iterdir(layout, Top.path).exc = e
          \/ InLoop /\ Raised = e
       /\ ~Catches(e)
       /\ exc' = e
  /\ stack' = <<>>
  /\ pc' = "crashed"
  /\ stderr' = IF caller = "main"
               THEN Append(stderr, [line |-> "Traceback", path |-> <<>>])
               ELSE stderr
  /\ UNCHANGED <<layout, caller, args, filters, max_depth, result, stdout>>

\* line 85 of a nested call and line 80 of its caller: the tree is returned
\* and added to the caller's tree
LsReturnNested ==
  /\ pc = "ls" /\ Len(stack) > 1
  /\ Top.state = "ret" \/ (Top.state = "iter" /\ Top.idx > Len(Top.names))
  /\ LET parent == stack[Len(stack) - 1]
         tree == Tree(Name(Top.path), Top.children)
     IN stack' = [SubSeq(stack, 1, Len(stack) - 1) EXCEPT
                    ![Len(stack) - 1] = [parent EXCEPT
                                           !.children = Append(@, tree),
                                           !.idx = @ + 1]]
  /\ UNCHANGED <<layout, caller, args, filters, max_depth, pc, result, stdout, stderr, exc>>

\* line 85 of the outermost call
LsReturn ==
  /\ pc = "ls" /\ Len(stack) = 1
  /\ Top.state = "ret" \/ (Top.state = "iter" /\ Top.idx > Len(Top.names))
  /\ result' = <<Tree(Name(Top.path), Top.children)>>
  /\ stack' = <<>>
  /\ pc' = IF caller = "main" THEN "print" ELSE "returned"
  /\ UNCHANGED <<layout, caller, args, filters, max_depth, stdout, stderr, exc>>

\* line 147
PrintTree ==
  /\ pc = "print"
  /\ stdout' = result
  /\ pc' = "done"
  /\ UNCHANGED <<layout, caller, args, filters, max_depth, stack, result, stderr, exc>>

Next ==
  \/ Main
  \/ MainUsage
  \/ CallLs
  \/ LsIterdir
  \/ LsIterdirDenied
  \/ LsSkip
  \/ LsRecurse
  \/ LsAddLeaf
  \/ LsExcept
  \/ LsUncaught
  \/ LsReturnNested
  \/ LsReturn
  \/ PrintTree

Spec == Init /\ [][Next]_vars

\* the run is single-threaded and never waits: a step that can be taken is taken
FairSpec == Init /\ [][Next]_vars /\ WF_vars(Next)

Halted == pc \in {"done", "returned", "exit2", "crashed"}

\* ------------------------------------------------- vocabulary of the claims
Frames == 1..Len(stack)

Max(a, b) == IF a >= b THEN a ELSE b

\* md is an int above 0
Positive(md) == ~md.none /\ md.int > 0

\* max(max_depth, 0) of the outermost call (0 when max_depth is PyNone)
Budget == IF max_depth.none THEN 0 ELSE Max(max_depth.int, 0)

\* the entries of call i the loop has finished with
Processed(i) == 1..(IF stack[i].names = <<>> THEN 0 ELSE stack[i].idx - 1)

\* the entries of call i the loop has reached
Encountered(i) ==
  1..(IF stack[i].names = <<>> THEN 0
      ELSE IF stack[i].idx <= Len(stack[i].names) THEN stack[i].idx
      ELSE Len(stack[i].names))

EntryPath(i, k) == Append(stack[i].path, stack[i].names[k])

\* every filter of the list returns True on path
Passes(path) == AllFilters(filters, 1, layout, path) = Ret(TRUE)

\* some filter of the list returns False on path
Rejects(path) ==
  \E j \in 1..Len(filters) : Filter(filters[j], layout, path) = Ret(FALSE)

\* lines 78-79 raise on path: a filter raises, or every filter passes and
\* is_dir() raises
RaisesAt(path) ==
  \/ AllFilters(filters, 1, layout, path).exc # ""
  \/ Passes(path) /\ is_dir(layout, path).exc # ""

\* a node and the nodes below it, each with its path and its level
RECURSIVE NodesOf(_, _, _)
NodesOf(node, path, level) ==
  {[path |-> path, node |-> node, level |-> level]}
  \cup UNION {NodesOf(node.children[k], Append(path, node.children[k].label), level + 1) :
              k \in 1..Len(node.children)}

\* the nodes added so far to the trees of the active calls, and the nodes
\* below the root of the returned tree
ChildNodes ==
  UNION {UNION {NodesOf(stack[i].children[k],
                        Append(stack[i].path, stack[i].children[k].label), i) :
                k \in 1..Len(stack[i].children)} :
         i \in Frames}
    \cup (IF result = <<>> THEN {}
          ELSE NodesOf(result[1], RootPath, 0) \ {[path |-> RootPath, node |-> result[1], level |-> 0]})

\* the nodes of the returned tree, the root included
ResultNodes == IF result = <<>> THEN {} ELSE NodesOf(result[1], RootPath, 0)

ChildLabels(children) == [k \in 1..Len(children) |-> children[k].label]

\* the names among the processed entries of call i that passed every filter
AdmittedNames(i) ==
  LET T(n) == Passes(Append(stack[i].path, n))
  IN SelectSeq(SubSeq(stack[i].names, 1, stack[i].idx - 1), T)

\* the names of the root directory, in iteration order
RootNames == iterdir(layout, RootPath).names

Perms(n) == {f \in [1..n -> 1..n] : \A a, b \in 1..n : f[a] = f[b] => a = b}

\* ---------------------------------------------------------------------- C1
\* C1: an entry that some filter rejects contributes no node to any tree, and
\* ls is never called on it, so nothing below a rejected directory appears.
C1_FilterThenRecurse ==
  /\ \A n \in ChildNodes : ~Rejects(n.path)
  /\ \A i \in 2..Len(stack) : ~Rejects(stack[i].path)

\* a finished run with max_depth > 0 whose root holds an admitted entry and
\* a rejected directory that is not empty: no node lies at or below it
C1_Witness ==
  /\ result # <<>>
  /\ Positive(max_depth)
  /\ Len(result[1].children) > 0
  /\ \E k \in 1..Len(RootNames) :
       LET d == Append(RootPath, RootNames[k]) IN
       /\ Rejects(d)
       /\ is_dir(layout, d) = Ret(TRUE)
       /\ iterdir(layout, d).names # <<>>
       /\ \A n \in ChildNodes : Len(n.path) < 2 \/ n.path[2] # RootNames[k]

\* ---------------------------------------------------------------------- C2
\* an admitted directory entry processed by a call whose max_depth is 0
DepthExhaustedDir(i, k) ==
  /\ stack[i].max_depth = PyInt(0)
  /\ Passes(EntryPath(i, k))
  /\ is_dir(layout, EntryPath(i, k)) = Ret(TRUE)

\* C2 as stated: a directory that passes every filter while max_depth = 0
\* contributes no node.
C2_Original ==
  \A i \in Frames : \A k \in Processed(i) :
    DepthExhaustedDir(i, k) =>
      \A c \in 1..Len(stack[i].children) :
        stack[i].children[c].label # stack[i].names[k]

\* C2 amended: a directory that passes every filter while max_depth = 0 is
\* added as a childless, directory-styled leaf; it is never descended into.
C2_DepthExhaustedLeaf ==
  /\ \A i \in Frames : \A k \in Processed(i) :
       DepthExhaustedDir(i, k) =>
         \E c \in 1..Len(stack[i].children) :
           stack[i].children[c] = Text(stack[i].names[k], "blue")
  /\ \A i \in 2..Len(stack) : stack[i - 1].max_depth # PyInt(0)

C2_Witness ==
  \E i \in Frames : \E k \in Processed(i) :
    /\ i > 1
    /\ DepthExhaustedDir(i, k)
    /\ \E c \in 1..Len(stack[i].children) :
         stack[i].children[c] = Text(stack[i].names[k], "blue")

\* ---------------------------------------------------------------------- C3
\* C3 as stated: ls(root, max_depth = 0, filters) returns a root without
\* children.
C3_Original ==
  (result # <<>> /\ max_depth = PyInt(0)) => result[1].children = <<>>

\* C3 amended: ls(root, max_depth = 0, filters) makes no nested call, and the
\* children of the root it returns are childless leaves, one for each root
\* entry that passed every filter, in iteration order, up to the first entry
\* on which a filter or is_dir() raises PermissionError.
C3_RootDepthZero ==
  max_depth = PyInt(0) =>
    /\ Len(stack) <= 1
    /\ \A i \in Frames :
         /\ ChildLabels(stack[i].children) = AdmittedNames(i)
         /\ \A c \in 1..Len(stack[i].children) : stack[i].children[c].kind = "Text"
    /\ result # <<>> =>
         /\ \A c \in 1..Len(result[1].children) :
              /\ result[1].children[c].kind = "Text"
              /\ result[1].children[c].children = <<>>
              /\ Passes(Append(RootPath, result[1].children[c].label))
         /\ \A k \in 1..Len(RootNames) :
              (\A j \in 1..k : ~RaisesAt(Append(RootPath, RootNames[j])))
              /\ Passes(Append(RootPath, RootNames[k]))
              => \E c \in 1..Len(result[1].children) :
                   result[1].children[c].label = RootNames[k]

C3_Witness ==
  /\ result # <<>>
  /\ max_depth = PyInt(0)
  /\ Len(result[1].children) >= 2
  /\ \E c \in 1..Len(result[1].children) : result[1].children[c].style = "blue"

\* ---------------------------------------------------------------------- C4
\* an admitted subdirectory, processed by a call with max_depth > 0, whose
\* listing the operating system refuses
DeniedSubdir(i, k) ==
  /\ Positive(stack[i].max_depth)
  /\ Passes(EntryPath(i, k))
  /\ is_dir(layout, EntryPath(i, k)) = Ret(TRUE)
  /\ iterdir(layout, EntryPath(i, k)).exc = "PermissionError"

\* C4: a subdirectory whose listing is denied still appears in its parent,
\* without children; exactly one diagnostic names it; every sibling that comes
\* after it in the parent's iteration is still processed, so the parent's loop
\* never ends before its last entry, and the processed entries appear exactly
\* when admitted, in order; PermissionError never ends the run.
C4_AccessDeniedIsolation ==
  /\ exc # "PermissionError"
  /\ \A i \in Frames : \A k \in Encountered(i) :
       DeniedSubdir(i, k) =>
         /\ stack[i].state = "ret" =>
              \A j \in (k + 1)..Len(stack[i].names) : j \in Processed(i)
         /\ k \in Processed(i) =>
              /\ Cardinality({c \in 1..Len(stack[i].children) :
                                stack[i].children[c] = Tree(stack[i].names[k], <<>>)}) = 1
              /\ Cardinality({m \in 1..Len(stderr) :
                                stderr[m] = Denied(EntryPath(i, k))}) = 1
              /\ ChildLabels(stack[i].children) = AdmittedNames(i)
  /\ \A n \in ResultNodes :
       (n.node.kind = "Tree" /\ iterdir(layout, n.path).exc = "PermissionError")
       => /\ n.node.children = <<>>
          /\ Cardinality({m \in 1..Len(stderr) : stderr[m] = Denied(n.path)}) = 1

\* ---------------------------------------------------------------------- C5
\* the entry of a node passed every filter; a directory node is a directory
\* admitted while the admitting call had max_depth > 0
Provenance(n) ==
  /\ Passes(n.path)
  /\ n.node.kind = "Tree" =>
       /\ is_dir(layout, n.path) = Ret(TRUE)
       /\ n.level >= 1 => (~max_depth.none /\ max_depth.int - (n.level - 1) > 0)

\* C5 as stated: every node of the returned tree, the root included, has
\* this provenance.
C5_Original == \A n \in ResultNodes : Provenance(n)

\* C5 amended: every node below the root has this provenance (the root is
\* the caller's path and is never filtered); the same holds of every active
\* nested call.
C5_NodeProvenance ==
  /\ \A n \in ChildNodes : Provenance(n)
  /\ \A i \in 2..Len(stack) :
       /\ Passes(stack[i].path)
       /\ is_dir(layout, stack[i].path) = Ret(TRUE)
       /\ Positive(stack[i - 1].max_depth)

\* a returned tree with a directory node below the root that has a leaf,
\* under a root that does not itself pass the filters
C5_Witness ==
  /\ result # <<>>
  /\ ~Passes(RootPath)
  /\ \E n \in ChildNodes : n.node.kind = "Tree" /\ n.node.children # <<>>

\* ---------------------------------------------------------------------- C6
\* C6: on every entry the loop reaches, the admission decision is the AND of
\* the results of the filters, is the same for every permutation of the
\* filter list, and is True when the list is empty.
C6_FilterSetComposition ==
  \A i \in Frames : \A k \in Encountered(i) :
    LET p == EntryPath(i, k)
        n == Len(filters)
    IN /\ AllFilters(filters, 1, layout, p)
            = Ret(\A j \in 1..n : Filter(filters[j], layout, p) = Ret(TRUE))
       /\ \A f \in Perms(n) :
            AllFilters([j \in 1..n |-> filters[f[j]]], 1, layout, p)
              = AllFilters(filters, 1, layout, p)
       /\ filters = <<>> => AllFilters(filters, 1, layout, p) = Ret(TRUE)

\* ---------------------------------------------------------------------- C7
\* the on-disk type of an entry: the first test that holds, in the order
\* socket, regular file, directory, fifo, symlink
Classify(path) ==
  IF is_socket(layout, path).val THEN "s"
  ELSE IF is_file(layout, path).val THEN "f"
  ELSE IF is_dir(layout, path).val THEN "d"
  ELSE IF is_fifo(layout, path).val THEN "p"
  ELSE IF is_symlink(layout, path).val THEN "l"
  ELSE ""

\* the type filters of the list all accept the entry
TypeFiltersAccept(path) ==
  \A j \in 1..Len(filters) :
    filters[j].tag = "Type" => Filter(filters[j], layout, path) = Ret(TRUE)

\* C7: with the types requested by -t, the type filters accept an entry
\* exactly when its on-disk type is one of the requested types.
C7_KindFilterSemantics ==
  (caller = "main" /\ args.type # <<>>) =>
    \A i \in Frames : \A k \in Encountered(i) :
      is_dir(layout, EntryPath(i, k)).exc = "" =>
        (TypeFiltersAccept(EntryPath(i, k))
           <=> Classify(EntryPath(i, k)) \in {args.type[j] : j \in 1..Len(args.type)})

\* ---------------------------------------------------------------------- C8
\* a filter that cannot be evaluated: a pattern that does not compile or a
\* type code without a test
RECURSIVE InvalidFilter(_)
InvalidFilter(pf) ==
  CASE pf.tag = "Regex" -> ~Compiles(pf.arg)
    [] pf.tag = "Type" -> pf.arg[1] \notin FiletypeKeys
    [] pf.tag = "Not" -> InvalidFilter(pf.inner[1])
    [] OTHER -> FALSE

InvalidConfiguration == \E j \in 1..Len(filters) : InvalidFilter(filters[j])

\* C8: with an invalid filter in the list no directory is ever listed, no
\* tree is returned or printed and no diagnostic is written.
C8_InvalidConfigurationBeforeTraversal ==
  InvalidConfiguration =>
    /\ \A i \in Frames : stack[i].state = "new"
    /\ result = <<>>
    /\ stdout = <<>>
    /\ \A m \in 1..Len(stderr) : stderr[m].line # "access denied for file"

\* ---------------------------------------------------------------------- C9
\* C9: a refused stat never raises, so the loop over a directory that was
\* listed is never left early and PermissionError never ends the run.
C9_LookupsDoNotRaise ==
  /\ exc # "PermissionError"
  /\ \A i \in Frames :
       stack[i].state = "ret" =>
         /\ stack[i].names = <<>>
         /\ iterdir(layout, stack[i].path).exc = "PermissionError"

\* --------------------------------------------------------------------- C10
\* every nested call has the max_depth of its caller less one and is made
\* while the caller's max_depth is positive; the chain of nested calls and
\* the levels of the nodes are bounded by the root's max_depth
DepthBounded ==
  /\ \A i \in 2..Len(stack) :
       /\ Positive(stack[i - 1].max_depth)
       /\ stack[i].max_depth = PyInt(stack[i - 1].max_depth.int - 1)
  /\ \A i \in Frames : i = 1 => stack[i].max_depth = max_depth
  /\ Len(stack) - 1 <= Budget
  /\ \A n \in ChildNodes : n.level <= Budget + 1

\* C10: ls terminates on every layout, cyclic ones included, and the depth
\* bounds hold throughout.
C10_DepthBoundedTermination == []DepthBounded /\ <>Halted

\* a finished run over the cyclic layout that went through the symlink back
\* to the root and produced a node at the deepest level allowed
C10_Witness ==
  /\ Halted
  /\ ~max_depth.none /\ max_depth.int >= 2
  /\ \E n \in ChildNodes :
       /\ n.level = max_depth.int + 1
       /\ \E j \in 1..Len(n.path) : n.path[j] = NameL

====
